---- MODULE Spec2Model ----
(***************************************************************************)
(* Model of the class LSH of lsh_parallel.py: random-projection locality   *)
(* sensitive hashing.  One LSH object is modelled: its constructor, and    *)
(* its three methods get_hash_values, make_hash_table and                  *)
(* get_similar_samples_indices, each as one action.                        *)
(*                                                                         *)
(* A numpy array of shape (n, w) is the record [n, w, at] with             *)
(* at[i][j], i in 0..n-1, j in 0..w-1 (0-based, as in the source).         *)
(* A Python list is a sequence; a dict is a function on its key set.       *)
(* The record `last` holds the most recent call: its method, the exception *)
(* it raised (err) or, when it returned, its arguments and its result.     *)
(***************************************************************************)
EXTENDS Integers, Sequences, FiniteSets

VARIABLES
    pc,                 \* "new" before LSH(...), "ready" once __init__ returned, "rejected" if it raised
    n_buckets,          \* self.n_buckets
    n_universes,        \* self.n_universes
    planes,             \* self.planes, shape (n_universes, vector_dims, n_planes)
    hash_to_index_map,  \* self.hash_to_index_map: None, or universe -> bucket code -> list of indices
    last,               \* the most recent call: method, exception, or arguments and returned value
    lastBuild           \* history: the most recent make_hash_table call: its exception, its corpus if it
                        \* returned, and whether the table it replaced held identifiers

vars == <<pc, n_buckets, n_universes, planes, hash_to_index_map, last, lastBuild>>

----------------------------------------------------------------------------
(* Bounds of the model. *)

MaxDims == 2        \* vector_dims is drawn from -1..MaxDims, array widths from 0..MaxDims
MaxBuckets == 4     \* max_buckets is drawn from -1..MaxBuckets
MaxUniverses == 2   \* n_universes is drawn from -1..MaxUniverses
MaxSamples == 2     \* a corpus holds 0..MaxSamples vectors
MaxTopK == 1        \* n_most_common is drawn from 0..MaxTopK and the default
MaxSeed == 3        \* the random planes are one of the sign patterns 0..MaxSeed

\* The default of n_most_common.
DefaultMostCommon == 5


----------------------------------------------------------------------------
(* Exceptions, named by what raises them. *)

NoError == "none"
\* math.floor(nan), math.floor(-inf), or np.random.normal with a negative dimension
ConstructorError == "ValueError/OverflowError in __init__"
\* np.matmul: the core dimensions of vectors and planes differ
DimensionMismatch == "ValueError: matmul: mismatch in core dimension"
\* self.hash_to_index_map[universe_id] with hash_to_index_map = None
IndexNotBuilt == "TypeError: 'NoneType' object is not subscriptable"
\* enumerate(hash_values) after np.squeeze left a 0-d array
ZeroDimIteration == "TypeError: iteration over a 0-d array"

----------------------------------------------------------------------------
(* Arithmetic helpers. *)

RECURSIVE Pow2(_)
Pow2(n) == IF n <= 0 THEN 1 ELSE 2 * Pow2(n - 1)

\* math.floor(np.log2(m)) for m >= 1
RECURSIVE FloorLog2(_)
FloorLog2(m) == IF m < 2 THEN 0 ELSE 1 + FloorLog2(m \div 2)

\* sum of f[0] .. f[n-1]
RECURSIVE SumUpTo(_, _)
SumUpTo(f, n) == IF n <= 0 THEN 0 ELSE f[n - 1] + SumUpTo(f, n - 1)

\* np.sign
Sign(x) == IF x > 0 THEN 1 ELSE IF x < 0 THEN -1 ELSE 0

----------------------------------------------------------------------------
(* Arrays. *)

\* the input vectors of width w: all ones, and alternating +1 -1
Vectors(w) ==
    { [j \in 0 .. w - 1 |-> 1],
      [j \in 0 .. w - 1 |-> IF j % 2 = 0 THEN 1 ELSE -1] }

\* the arrays of shape (n, w) whose rows are input vectors
ArraysOfShape(n, w) ==
    { [n |-> n, w |-> w, at |-> a] : a \in [0 .. n - 1 -> Vectors(w)] }

\* a corpus: 0..MaxSamples vectors of one width
Corpora == UNION { ArraysOfShape(n, w) : n \in 0 .. MaxSamples, w \in 0 .. MaxDims }

\* a query: a batch of one vector
Queries == UNION { ArraysOfShape(1, w) : w \in 0 .. MaxDims }

TopKs == 0 .. MaxTopK \cup {DefaultMostCommon}

\* bit b of seed
SeedBit(seed, b) == (seed \div Pow2(b)) % 2

\* A draw of np.random.normal(size=(U, D, P)).  The draw is one of the sign
\* patterns 0..MaxSeed: entry (u, d, p) is +1 or -1, as one of the three low
\* bits of the pattern says; the universes read the bits in rotated order.
RandomNormal(seed, U, D, P) ==
    [U |-> U, D |-> D, P |-> P,
     at |-> [u \in 0 .. U - 1 |-> [d \in 0 .. D - 1 |-> [p \in 0 .. P - 1 |->
                IF SeedBit(seed, (u + d * P + p) % 3) = 1 THEN 1 ELSE -1]]]]

NoPlanes == RandomNormal(0, 0, 0, 0)

\* hash_values iterated as returned, without .T
NotTransposed(a) == a

\* hash_values.T
Transpose(a) ==
    [n |-> a.w, w |-> a.n, at |-> [i \in 0 .. a.w - 1 |-> [j \in 0 .. a.n - 1 |-> a.at[j][i]]]]

----------------------------------------------------------------------------
(* get_hash_values *)

\* np.matmul(vectors_expanded, self.planes)[u][i][p]
DotProduct(vectors, pl, u, i, p) ==
    SumUpTo([d \in 0 .. pl.D - 1 |-> vectors.at[i][d] * pl.at[u][d][p]], pl.D)

\* (sign_of_dot_product > 0).astype(int)
IsDotProductPositive(s) == IF s > 0 THEN 1 ELSE 0

\* (sign_of_dot_product >= 0).astype(int)
IsDotProductNonnegative(s) == IF s >= 0 THEN 1 ELSE 0

\* np.sum(np.power(2, binary_exponents) * is_dot_product_nonnegative, axis=2)[u][i]
HashValue(vectors, pl, u, i) ==
    SumUpTo([p \in 0 .. pl.P - 1 |->
                Pow2(p) * IsDotProductNonnegative(Sign(DotProduct(vectors, pl, u, i, p)))],
            pl.P)

\* get_hash_values(vectors): the exception, and the returned array
GetHashValues(vectors, pl) ==
    IF vectors.w # pl.D
    THEN [err |-> DimensionMismatch, val |-> [n |-> 0, w |-> 0, at |-> << >>]]
    ELSE [err |-> NoError,
          val |-> [n |-> pl.U, w |-> vectors.n,
                   at |-> [u \in 0 .. pl.U - 1 |->
                              [i \in 0 .. vectors.n - 1 |-> HashValue(vectors, pl, u, i)]]]]

----------------------------------------------------------------------------
(* hash_to_index_map: defaultdict(lambda: defaultdict(list)) *)

NoArray == [n |-> 0, w |-> 0, at |-> << >>]

\* self.hash_to_index_map = None
NoneMap == [isNone |-> TRUE, tab |-> << >>]

\* the table kept as it is: a build that adds to what is there
KeptHashToIndexMap(old) == old.tab

\* self.hash_to_index_map = defaultdict(lambda: defaultdict(list)), whatever it held
NewHashToIndexMap(old) == << >>

\* d[u][h] of the nested defaultdict: a missing key is created on access
Touch(tab, u, h) ==
    LET inner == IF u \in DOMAIN tab THEN tab[u] ELSE << >>
        inner2 == [x \in DOMAIN inner \cup {h} |-> IF x \in DOMAIN inner THEN inner[x] ELSE << >>]
    IN  [y \in DOMAIN tab \cup {u} |-> IF y = u THEN inner2 ELSE tab[y]]

\* self.hash_to_index_map[universe_id][sample_hash_in_universe].append(i)
AppendIndex(tab, u, h, i) ==
    LET t == Touch(tab, u, h) IN [t EXCEPT ![u][h] = Append(@, i)]

\* the two nested loops of make_hash_table over `rows` = hash_values.T:
\* step s handles row i = s \div rows.w and column universe_id = s % rows.w
RECURSIVE FillTable(_, _, _)
FillTable(tab, rows, s) ==
    IF s >= rows.n * rows.w THEN tab
    ELSE LET i == s \div rows.w
             universe_id == s % rows.w
         IN  FillTable(AppendIndex(tab, universe_id, rows.at[i][universe_id], i), rows, s + 1)

----------------------------------------------------------------------------
(* get_similar_samples_indices *)

\* np.squeeze of the (n_universes, 1) array of a single query: a 0-d array
\* when n_universes = 1, a 1-d array of n_universes codes otherwise
Squeeze(a) ==
    IF a.n = 1 THEN [ndim |-> 0, items |-> << >>]
    ELSE [ndim |-> 1, items |-> [u \in 0 .. a.n - 1 |-> a.at[u][0]]]

\* the loop over the universes from universe_id on: the table with the keys
\* the lookups created, and similar_indices
RECURSIVE ScanUniverses(_, _, _, _, _)
ScanUniverses(tab, codes, universe_id, U, similar_indices) ==
    IF universe_id >= U THEN [tab |-> tab, similar_indices |-> similar_indices]
    ELSE LET t == Touch(tab, universe_id, codes[universe_id])
         IN  ScanUniverses(t, codes, universe_id + 1, U,
                           similar_indices \o t[universe_id][codes[universe_id]])

\* number of occurrences of x in sequence s
Occurrences(s, x) == Cardinality({j \in 1 .. Len(s) : s[j] = x})

\* the keys of Counter(s), in insertion order: the order of first occurrence
RECURSIVE CounterKeys(_)
CounterKeys(s) ==
    IF s = << >> THEN << >>
    ELSE LET front == CounterKeys(SubSeq(s, 1, Len(s) - 1))
             x == s[Len(s)]
         IN  IF \E j \in 1 .. Len(front) : front[j] = x THEN front ELSE Append(front, x)

\* sorted(items, key=count, reverse=True): a stable sort, so among equal
\* counts the earlier key stays first; by repeated selection of the first
\* key of greatest count
RECURSIVE SortedByCount(_, _)
SortedByCount(keys, s) ==
    IF keys = << >> THEN << >>
    ELSE LET best == CHOOSE j \in 1 .. Len(keys) :
                        /\ \A l \in 1 .. Len(keys) : Occurrences(s, keys[l]) <= Occurrences(s, keys[j])
                        /\ \A l \in 1 .. j - 1 : Occurrences(s, keys[l]) < Occurrences(s, keys[j])
             others == [l \in 1 .. Len(keys) - 1 |-> IF l < best THEN keys[l] ELSE keys[l + 1]]
         IN  << keys[best] >> \o SortedByCount(others, s)

\* [element[0] for element in Counter(s).most_common(n)]
MostCommon(s, n) ==
    LET sorted == SortedByCount(CounterKeys(s), s)
    IN  SubSeq(sorted, 1, IF n < Len(sorted) THEN n ELSE Len(sorted))

----------------------------------------------------------------------------
(* The calls. *)

Call(op, vectors, k, err, hashes, ids) ==
    [op |-> op, args |-> << >>, vectors |-> vectors, k |-> k, err |-> err,
     hashes |-> hashes, ids |-> ids]

\* a call that raised
Raised(op, err) == Call(op, NoArray, 0, err, NoArray, << >>)

\* the call LSH(vector_dims, max_buckets, n_universes)
InitCall(vector_dims, max_buckets, universes, err) ==
    [Call("init", NoArray, 0, err, NoArray, << >>)
        EXCEPT !.args = [vector_dims |-> vector_dims, max_buckets |-> max_buckets,
                         n_universes |-> universes]]

NoBuild == [called |-> FALSE, err |-> NoError, vectors |-> NoArray, replaced |-> FALSE]

\* some list of the table holds an identifier
HoldsIdentifiers(tab) == \E u \in DOMAIN tab : \E h \in DOMAIN tab[u] : tab[u][h] # << >>

Init ==
    /\ pc = "new"
    /\ n_buckets = 0
    /\ n_universes = 0
    /\ planes = NoPlanes
    /\ hash_to_index_map = NoneMap
    /\ last = Call("none", NoArray, 0, NoError, NoArray, << >>)
    /\ lastBuild = NoBuild

\* LSH(vector_dims, max_buckets, n_universes); seed stands for the random draw
Construct(vector_dims, max_buckets, universes, seed) ==
    /\ IF max_buckets <= 0 \/ vector_dims < 0 \/ universes < 0
       THEN /\ pc' = "rejected"
            /\ last' = InitCall(vector_dims, max_buckets, universes, ConstructorError)
            /\ UNCHANGED <<n_buckets, n_universes, planes, hash_to_index_map>>
       ELSE LET n_planes == FloorLog2(max_buckets) IN
            /\ pc' = "ready"
            /\ n_buckets' = Pow2(n_planes)
            /\ n_universes' = universes
            /\ planes' = RandomNormal(seed, universes, vector_dims, n_planes)
            /\ hash_to_index_map' = NoneMap
            /\ last' = InitCall(vector_dims, max_buckets, universes, NoError)
    /\ UNCHANGED lastBuild

\* lsh.get_hash_values(vectors)
Hash(vectors) ==
    /\ LET h == GetHashValues(vectors, planes) IN
       last' = IF h.err # NoError THEN Raised("hash", h.err)
               ELSE Call("hash", vectors, 0, NoError, h.val, << >>)
    /\ UNCHANGED <<pc, n_buckets, n_universes, planes, hash_to_index_map, lastBuild>>

\* lsh.make_hash_table(vectors)
MakeHashTable(vectors) ==
    /\ LET fresh == NewHashToIndexMap(hash_to_index_map)
           h == GetHashValues(vectors, planes)
       IN  /\ hash_to_index_map' =
                 [isNone |-> FALSE,
                  tab |-> IF h.err # NoError THEN fresh
                          ELSE FillTable(fresh, Transpose(h.val), 0)]
           /\ last' = IF h.err # NoError THEN Raised("build", h.err)
                       ELSE Call("build", vectors, 0, NoError, NoArray, << >>)
           /\ lastBuild' = [called |-> TRUE, err |-> h.err,
                            vectors |-> IF h.err = NoError THEN vectors ELSE NoArray,
                            replaced |-> HoldsIdentifiers(hash_to_index_map.tab)]
    /\ UNCHANGED <<pc, n_buckets, n_universes, planes>>

\* lsh.get_similar_samples_indices(vector, n_most_common)
GetSimilarSamplesIndices(vector, n_most_common) ==
    /\ LET h == GetHashValues(vector, planes)
           hash_values == Squeeze(h.val)
           scan == ScanUniverses(hash_to_index_map.tab, hash_values.items, 0, h.val.n, << >>)
       IN  IF h.err # NoError
           THEN /\ last' = Raised("query", h.err)
                /\ UNCHANGED hash_to_index_map
           ELSE IF hash_values.ndim = 0
           THEN /\ last' = Raised("query", ZeroDimIteration)
                /\ UNCHANGED hash_to_index_map
           ELSE IF h.val.n > 0 /\ hash_to_index_map.isNone
           THEN /\ last' = Raised("query", IndexNotBuilt)
                /\ UNCHANGED hash_to_index_map
           ELSE /\ last' = Call("query", vector, n_most_common, NoError, NoArray,
                                MostCommon(scan.similar_indices, n_most_common))
                /\ hash_to_index_map' = [hash_to_index_map EXCEPT !.tab = scan.tab]
    /\ UNCHANGED <<pc, n_buckets, n_universes, planes, lastBuild>>

New ==
    /\ pc = "new"
    /\ \E vector_dims \in -1 .. MaxDims, max_buckets \in -1 .. MaxBuckets,
          universes \in -1 .. MaxUniverses, seed \in 0 .. MaxSeed :
          Construct(vector_dims, max_buckets, universes, seed)

Build == pc = "ready" /\ \E vectors \in Corpora : MakeHashTable(vectors)

Query ==
    /\ pc = "ready"
    /\ \E vector \in Queries, n_most_common \in TopKs :
          GetSimilarSamplesIndices(vector, n_most_common)

HashBatch == pc = "ready" /\ \E vectors \in Corpora : Hash(vectors)

\* The index: construction, then any sequence of builds and queries.
Next == New \/ Build \/ Query

Spec == Init /\ [][Next]_vars

\* The projector: construction, then any sequence of get_hash_values calls.
NextHash == New \/ HashBatch

SpecHash == Init /\ [][NextHash]_vars

----------------------------------------------------------------------------
(* Vocabulary of the properties. *)

\* d[u][h] read without creating keys: an absent key reads as the empty list
Lookup(tab, u, h) ==
    IF u \in DOMAIN tab /\ h \in DOMAIN tab[u] THEN tab[u][h] ELSE << >>

\* the elements of a sequence
Range(s) == {s[j] : j \in 1 .. Len(s)}

\* a valid configuration: max_buckets >= 2 (at least one plane),
\* vector_dims > 0 and n_universes > 0
ValidConfiguration == planes.P >= 1 /\ planes.D >= 1 /\ planes.U >= 1

\* the index holds the corpus of a make_hash_table call that returned
Built == lastBuild.called /\ lastBuild.err = NoError

Universes == 0 .. planes.U - 1

\* the indexed corpus, its identifiers, and the code of vector i in universe u
Corpus == lastBuild.vectors
Identifiers == 0 .. Corpus.n - 1
CorpusCode(i, u) == HashValue(Corpus, planes, u, i)

\* the code of the query of the last call in universe u
QueryCode(u) == HashValue(last.vectors, planes, u, 0)

\* the finite set of integers S as an ascending sequence
RECURSIVE Ascending(_)
Ascending(S) ==
    IF S = {} THEN << >>
    ELSE LET m == CHOOSE x \in S : \A y \in S : x <= y
         IN  << m >> \o Ascending(S \ {m})

\* the bucket of the query in universe u, as the table holds it
QueryBucket(u) == Lookup(hash_to_index_map.tab, u, QueryCode(u))

\* votes of an identifier: the universes in whose query bucket it lies
Votes(id) == Cardinality({u \in Universes : id \in Range(QueryBucket(u))})

Voted == {id \in Identifiers : Votes(id) >= 1}

\* first occurrence of a voted identifier when the universes are scanned
\* 0, 1, 2, ... and each bucket is read in insertion order
FirstUniverse(id) ==
    CHOOSE u \in Universes :
        /\ id \in Range(QueryBucket(u))
        /\ \A v \in 0 .. u - 1 : id \notin Range(QueryBucket(v))
FirstPosition(id) ==
    CHOOSE j \in 1 .. Len(QueryBucket(FirstUniverse(id))) :
        /\ QueryBucket(FirstUniverse(id))[j] = id
        /\ \A l \in 1 .. j - 1 : QueryBucket(FirstUniverse(id))[l] # id
OccursBefore(a, b) ==
    \/ FirstUniverse(a) < FirstUniverse(b)
    \/ FirstUniverse(a) = FirstUniverse(b) /\ FirstPosition(a) < FirstPosition(b)

\* a ranks ahead of b: more votes, or as many and an earlier first occurrence
RanksAhead(a, b) == Votes(a) > Votes(b) \/ (Votes(a) = Votes(b) /\ OccursBefore(a, b))

\* ids is the ranking of the voted identifiers, truncated to k
IsRanking(ids, k) ==
    /\ Range(ids) \subseteq Voted
    /\ Len(ids) = IF k < Cardinality(Voted) THEN k ELSE Cardinality(Voted)
    /\ \A j \in 1 .. Len(ids) : \A l \in j + 1 .. Len(ids) : RanksAhead(ids[j], ids[l])
    /\ \A j \in 1 .. Len(ids) : \A x \in Voted \ Range(ids) : RanksAhead(ids[j], x)

\* a query call that was given a vector of the configured length
QueryOfRightLength == last.op = "query" /\ last.err # DimensionMismatch

----------------------------------------------------------------------------
(* The properties. *)

\* C1: a query is read-only: on a built index the bucket state (the universe
\* keys, the bucket code keys of each universe and every identifier list) is
\* the same before and after get_similar_samples_indices, whether it returns
\* or raises.  Stated for the valid configurations.
QueryIsReadOnly ==
    [][(ValidConfiguration /\ Built /\ Query) => hash_to_index_map' = hash_to_index_map]_vars

\* C2: a query on an index that make_hash_table was never called on never
\* returns a candidate list; it fails with IndexNotBuilt (a vector of the
\* wrong length may be reported as DimensionMismatch instead).
QueryBeforeBuildFails ==
    (last.op = "query" /\ ~lastBuild.called) =>
        /\ last.err # NoError
        /\ QueryOfRightLength => last.err = IndexNotBuilt

\* C3: in every valid configuration (n_universes = 1 included), on a built
\* index, a query of the configured length returns the voted identifiers by
\* descending votes, equal votes by first occurrence in the scan, truncated
\* to n_most_common; three identical vectors queried with that vector and
\* n_most_common = 5 give [0, 1, 2].
QueryReturnsRanking ==
    (ValidConfiguration /\ Built /\ QueryOfRightLength) =>
        /\ last.err = NoError
        /\ IsRanking(last.ids, last.k)
        /\ ( /\ Corpus.n = 3
             /\ \A i \in Identifiers : Corpus.at[i] = last.vectors.at[0]
             /\ last.k = DefaultMostCommon ) => last.ids = << 0, 1, 2 >>

\* The part of C3 the code keeps: the same, with two universes or more.
QueryReturnsRankingSeveralUniverses ==
    (ValidConfiguration /\ planes.U >= 2 /\ Built /\ QueryOfRightLength) =>
        /\ last.err = NoError
        /\ IsRanking(last.ids, last.k)
        /\ ( /\ Corpus.n = 3
             /\ \A i \in Identifiers : Corpus.at[i] = last.vectors.at[0]
             /\ last.k = DefaultMostCommon ) => last.ids = << 0, 1, 2 >>

RankingWitness ==
    /\ ValidConfiguration /\ Built /\ last.op = "query" /\ last.err = NoError
    /\ last.ids = << 1, 0 >>
    /\ Votes(1) > Votes(0)

\* C4: after make_hash_table on N vectors the lists of every universe
\* partition 0..N-1: identifier i lies exactly once in the bucket whose code
\* is the hash of vector i in that universe, in no other bucket, and nothing
\* else is stored.
BucketsPartitionCorpus ==
    Built =>
        LET tab == hash_to_index_map.tab IN
        /\ DOMAIN tab \subseteq Universes
        /\ \A u \in DOMAIN tab : \A h \in DOMAIN tab[u] :
              /\ h \in 0 .. n_buckets - 1
              /\ Range(tab[u][h]) \subseteq Identifiers
        /\ \A u \in Universes : \A i \in Identifiers :
              /\ Occurrences(Lookup(tab, u, CorpusCode(i, u)), i) = 1
              /\ \A h \in 0 .. n_buckets - 1 :
                    h # CorpusCode(i, u) => i \notin Range(Lookup(tab, u, h))

\* a built index of two vectors and two universes: one universe separates
\* the two vectors, the other puts them in one bucket
PartitionWitness ==
    /\ Built /\ last.op = "build" /\ Corpus.n = 2 /\ planes.U = 2
    /\ \E u \in Universes : CorpusCode(0, u) # CorpusCode(1, u)
    /\ \E u \in Universes : Lookup(hash_to_index_map.tab, u, CorpusCode(0, u)) = << 0, 1 >>

\* the table a new index holds after make_hash_table(corpus) alone
FreshTable ==
    [u \in IF Corpus.n > 0 THEN Universes ELSE {} |->
        [h \in {CorpusCode(i, u) : i \in Identifiers} |->
            Ascending({i \in Identifiers : CorpusCode(i, u) = h})]]

\* C5: make_hash_table replaces the index: whatever builds and queries came
\* before, after it returns the table is the one a new index holds after
\* this build alone; the lists keep that content through later queries, and
\* a later query returns positions of this corpus only.
BuildReplacesIndex ==
    /\ (Built /\ last.op = "build") => hash_to_index_map.tab = FreshTable
    /\ Built => \A u \in Universes : \A h \in 0 .. n_buckets - 1 :
                    Lookup(hash_to_index_map.tab, u, h) = Lookup(FreshTable, u, h)
    /\ (last.op = "query" /\ last.err = NoError) =>
            /\ Range(last.ids) \subseteq Identifiers
            /\ Range(last.ids) # {} => Built

\* a build that returned, on an index whose table held identifiers, with a
\* corpus smaller than some list it replaced could account for
ReplaceWitness ==
    /\ Built /\ last.op = "build" /\ lastBuild.replaced
    /\ Corpus.n = 1 /\ planes.U = 2
    /\ hash_to_index_map.tab = FreshTable

\* C6: after make_hash_table on a corpus of no vectors, in every valid
\* configuration, a query of the configured length returns the empty list.
QueryOfEmptyCorpusIsEmpty ==
    (ValidConfiguration /\ Built /\ Corpus.n = 0 /\ QueryOfRightLength) =>
        last.err = NoError /\ last.ids = << >>

\* C7: LSH(...) fails when max_buckets < 2, vector_dims <= 0 or
\* n_universes <= 0: no object with zero planes, zero dimensions or zero
\* universes is produced.
BadConfigurationRejected ==
    /\ ( /\ last.op = "init"
         /\ \/ last.args.max_buckets < 2
            \/ last.args.vector_dims <= 0
            \/ last.args.n_universes <= 0 ) => (last.err # NoError /\ pc = "rejected")
    /\ pc = "ready" => ValidConfiguration

\* C8: the code of vector i in universe u is the sum over the planes p of
\* 2^p * b_p, b_p = 1 iff the dot product with plane p is >= 0 (zero gives
\* 1): bit p of the code is b_p, and the code lies in 0..n_buckets-1 with
\* n_buckets = 2^n_planes.
HashIsPackedSigns ==
    (last.op = "hash" /\ last.err = NoError) =>
        /\ n_buckets = Pow2(planes.P)
        /\ \A u \in Universes : \A i \in 0 .. last.vectors.n - 1 :
              LET code == last.hashes.at[u][i] IN
              /\ code \in 0 .. n_buckets - 1
              /\ \A p \in 0 .. planes.P - 1 :
                    ((code \div Pow2(p)) % 2 = 1) <=> (DotProduct(last.vectors, planes, u, i, p) >= 0)

\* a code of two planes: one dot product is exactly zero, the other negative
PackedSignsWitness ==
    /\ last.op = "hash" /\ last.err = NoError /\ planes.P = 2
    /\ \E u \in Universes : \E i \in 0 .. last.vectors.n - 1 :
          /\ DotProduct(last.vectors, planes, u, i, 0) = 0
          /\ DotProduct(last.vectors, planes, u, i, 1) < 0
          /\ last.hashes.at[u][i] = 1

\* C9: get_hash_values on N vectors returns an array of shape
\* (N, n_universes): result[i][u] is the code of vector i in universe u.
\* Stated for the valid configurations.
HashShapeIsSamplesByUniverses ==
    (ValidConfiguration /\ last.op = "hash" /\ last.err = NoError) =>
        /\ last.hashes.n = last.vectors.n
        /\ last.hashes.w = planes.U
        /\ \A i \in 0 .. last.vectors.n - 1 : \A u \in Universes :
              last.hashes.at[i][u] = HashValue(last.vectors, planes, u, i)

\* C10: a make_hash_table call that raises leaves the index as it was: an
\* index never built stays so, a built index keeps its buckets.  Stated for
\* the valid configurations.
FailedBuildKeepsIndex ==
    [][(ValidConfiguration /\ Build /\ last'.err # NoError)
          => hash_to_index_map' = hash_to_index_map]_vars

====
